---- MODULE Spec2Model ----
(***************************************************************************)
(* A model of the PyTorch/Keras estimator plumbing of sktime:              *)
(*   sktime/networks/base.py      BaseDeepNetworkPyTorch, PyTorchDataset   *)
(*   sktime/networks/ltsf.py      LTSF-Linear / DLinear / NLinear networks *)
(*   sktime/forecasting/ltsf.py   LTSFLinearForecaster                     *)
(*   sktime/regression/deep_learning/tapnet.py   TapNetRegressor           *)
(*                                                                         *)
(* Tensors and arrays are modelled by their shape (a sequence of naturals) *)
(* and, where slicing matters, by their rows.  Learned parameters are      *)
(* modelled by a version number that every optimizer step increases.       *)
(* Python exceptions are modelled by the name of the exception class; an   *)
(* instance attribute that was never assigned raises AttributeError when   *)
(* it is read.                                                             *)
(*                                                                         *)
(* A client program drives the code one call at a time and holds one       *)
(* object (a dataset, a network, a forecaster or a regressor) at a time.   *)
(***************************************************************************)
EXTENDS Integers, Sequences, FiniteSets, TLC

VARIABLES
    torch,       \* the torch package is installed
    tensorflow,  \* the tensorflow package is installed
    mod,         \* import state of the module sktime.networks.ltsf
    ds,          \* the PyTorchDataset the client holds, or NoneObj
    net,         \* the network the client built, or NoneObj
    est,         \* the LTSFLinearForecaster the client holds, or NoneObj
    tap,         \* the TapNetRegressor the client holds, or NoneObj
    saved,       \* the file written by save, or NoneObj
    ret          \* the last call: [op, exc, val]

vars == <<torch, tensorflow, mod, ds, net, est, tap, saved, ret>>

----------------------------------------------------------------------------
(* Bounds of the model. *)

\* longest input series
MaxN == 5
\* largest seq_len / pred_len / forecasting horizon drawn
MaxLen == 2
\* largest number of channels drawn
MaxChannels == 2
\* largest batch size drawn
MaxBatch == 2
\* largest number of epochs drawn
MaxEpochs == 2

SeriesLengths == 1..MaxN
Lens == 1..MaxLen
\* A forecaster is given the smallest or the largest of these.
Channels == {1, MaxChannels}
BatchSizes == {1, MaxBatch}
Epochs == {1, MaxEpochs}

----------------------------------------------------------------------------
(* Python values. *)

NoneObj == [cls |-> "NoneType"]

Min(a, b) == IF a <= b THEN a ELSE b

RECURSIVE SumSeq(_)
SumSeq(s) == IF s = <<>> THEN 0 ELSE Head(s) + SumSeq(Tail(s))

RECURSIVE Prod(_)
Prod(s) == IF s = <<>> THEN 1 ELSE Head(s) * Prod(Tail(s))

\* The result of a call that returned v / that raised exception e.
Returned(v) == [exc |-> "none", val |-> v]
Raised(e) == [exc |-> e, val |-> NoneObj]

\* A univariate pandas Series of length n; its k-th value is k.
Series(n) == [cls |-> "Series", values |-> [shape |-> <<n>>, data |-> [k \in 1..n |-> k]]]

\* numpy: len(a) is the size of the first axis.
NumpyLen(a) == a.shape[1]

\* numpy: a.reshape(-1, 1) of a one-dimensional array: one row per element.
Reshape_m1_1(a) ==
    [shape |-> <<Prod(a.shape), 1>>, data |-> [k \in 1..Len(a.data) |-> <<a.data[k]>>]]

\* sklearn StandardScaler.fit_transform on an (n, 1) array: every value is
\* centred on the column mean (and divided by the deviation); the shape is
\* kept.  The centred value (v - mean) is represented by the integer
\* n*v - sum, which is n times it.
StandardScaler_fit_transform(a) ==
    LET n == Len(a.data)
        total == SumSeq([k \in 1..n |-> a.data[k][1]])
    IN  [shape |-> a.shape, data |-> [k \in 1..n |-> <<n * a.data[k][1] - total>>]]

\* Python a[i:j] on the first axis, for 0 <= i: clamped to the array.
Slice(a, i, j) ==
    LET hi == Min(j, Len(a.data))
        rows == IF i + 1 > hi THEN <<>> ELSE SubSeq(a.data, i + 1, hi)
    IN  [shape |-> <<Len(rows)>> \o Tail(a.shape), data |-> rows]

----------------------------------------------------------------------------
(* PyTorchDataset: sktime/networks/base.py *)

\* A faulty variant of __init__: the scaler is fed one row, reshape(1, -1).
PyTorchDataset_init_rowscaled(y, seq_len, pred_len, scale) ==
    [cls |-> "PyTorchDataset", seq_len |-> seq_len, pred_len |-> pred_len,
     y |-> IF scale
           THEN [shape |-> <<1, Len(y.values.data)>>, data |-> <<y.values.data>>]
           ELSE y.values]

\* PyTorchDataset.__init__
PyTorchDataset_init(y, seq_len, pred_len, scale) ==
    [cls |-> "PyTorchDataset", seq_len |-> seq_len, pred_len |-> pred_len,
     y |-> IF scale
           THEN StandardScaler_fit_transform(Reshape_m1_1(y.values))
           ELSE y.values]

\* PyTorchDataset.__len__
PyTorchDataset_len(self) == NumpyLen(self.y) - self.seq_len - self.pred_len + 1

\* A faulty variant of __getitem__: the target window starts one position
\* late, leaving a gap after the input window.
PyTorchDataset_getitem_gap(self, i) ==
    [x |-> Slice(self.y, i, i + self.seq_len),
     y |-> Slice(self.y, i + self.seq_len + 1, i + self.seq_len + 1 + self.pred_len)]

\* PyTorchDataset.__getitem__: the pair (input window, target window).
PyTorchDataset_getitem(self, i) ==
    [x |-> Slice(self.y, i, i + self.seq_len),
     y |-> Slice(self.y, i + self.seq_len, i + self.seq_len + self.pred_len)]

----------------------------------------------------------------------------
(* Optional dependencies: sktime/utils/validation/_dependencies.py *)

\* _check_soft_dependencies(package, severity=...): True when the package is
\* installed; otherwise it raises under severity "error" (the default) and
\* returns False under severity "none".
check_soft_dependencies(installed, severity) ==
    IF installed THEN Returned(TRUE)
    ELSE IF severity = "error" THEN Raised("ModuleNotFoundError")
    ELSE Returned(FALSE)

\* _check_dl_dependencies(severity=...): the same check for tensorflow.
check_dl_dependencies(installed, severity) ==
    IF installed THEN Returned(TRUE)
    ELSE IF severity = "error" THEN Raised("ModuleNotFoundError")
    ELSE Returned(FALSE)

----------------------------------------------------------------------------
(* Importing sktime/networks/ltsf.py: its top-level statements in order. *)

\* Lines 4-13: the names bound by the dependency check at the module's top.
nn_module_binding(installed) ==
    IF check_soft_dependencies(installed, "none").val
    THEN {"nn", "nn_module"}
    ELSE {"nn_module"}

\* The three top-level class statements.  Executing a class statement
\* evaluates the base-class expressions of the class and of every class
\* nested in its body (method bodies are not evaluated); "uses" are the
\* module-level names those expressions read.
ClassStatements ==
    << [name |-> "LTSFLinearNetwork",
        nested |-> << [name |-> "_LTSFLinearNetwork", uses |-> {"nn_module"}] >>],
       [name |-> "LTSFDLinearNetwork",
        nested |-> << [name |-> "_LTSFDLinearNetwork", uses |-> {"nn_module"}],
                      [name |-> "_series_decomp", uses |-> {"nn"}],
                      [name |-> "_moving_avg", uses |-> {"nn"}] >>],
       [name |-> "LTSFNLinearNetwork",
        nested |-> << [name |-> "_LTSFNLinearNetwork", uses |-> {"nn_module"}] >> ] >>

NetworkClasses == {ClassStatements[k].name : k \in 1..Len(ClassStatements)}

\* The names one class statement reads when it is executed.
NamesRead(stmt) == UNION {stmt.nested[k].uses : k \in 1..Len(stmt.nested)}

\* Executes statements k.. with the module globals g: a read of an unbound
\* name raises NameError and ends the import.
RECURSIVE ExecClassStatements(_, _)
ExecClassStatements(k, g) ==
    IF k > Len(ClassStatements) THEN [state |-> "loaded", names |-> g, at |-> "end"]
    ELSE IF ~(NamesRead(ClassStatements[k]) \subseteq g)
         THEN [state |-> "NameError", names |-> g, at |-> ClassStatements[k].name]
         ELSE ExecClassStatements(k + 1, g \cup {ClassStatements[k].name})

\* import sktime.networks.ltsf
import_networks_ltsf(installed) == ExecClassStatements(1, nn_module_binding(installed))

Unloaded == [state |-> "unloaded", names |-> {}, at |-> "start"]

----------------------------------------------------------------------------
(* torch.nn building blocks, as far as the networks use them. *)

Unassigned == [cls |-> "Unassigned"]

\* nn.Linear(in_features, out_features); w is the version of its parameters.
nn_Linear(i, o) == [cls |-> "Linear", in_features |-> i, out_features |-> o, w |-> 0]

\* nn.ModuleList() and its append.
nn_ModuleList == [cls |-> "ModuleList", layers |-> <<>>]
ModuleList_append(l, layer) == [l EXCEPT !.layers = Append(@, layer)]

\* for _ in range(n): lst.append(nn.Linear(i, o))
RECURSIVE AppendLinears(_, _, _, _)
AppendLinears(lst, n, i, o) ==
    IF n <= 0 THEN lst
    ELSE AppendLinears(ModuleList_append(lst, nn_Linear(i, o)), n - 1, i, o)

\* The number of independent weight sets a network attribute holds.
WeightSets(linear) ==
    IF linear.cls = "ModuleList" THEN Len(linear.layers)
    ELSE IF linear.cls = "Linear" THEN 1
    ELSE 0

----------------------------------------------------------------------------
(* LTSFLinearNetwork: sktime/networks/ltsf.py *)

\* A faulty variant: the individual mode builds one layer too few.
LTSFLinearNetwork_Linear_short(seq_len, pred_len, in_channels, individual) ==
    IF individual
    THEN AppendLinears(nn_ModuleList, in_channels - 1, seq_len, pred_len)
    ELSE nn_Linear(seq_len, pred_len)

\* _LTSFLinearNetwork.__init__, lines 61-66: the value assigned to self.Linear.
LTSFLinearNetwork_Linear(seq_len, pred_len, in_channels, individual) ==
    IF individual
    THEN AppendLinears(nn_ModuleList, in_channels, seq_len, pred_len)
    ELSE nn_Linear(seq_len, pred_len)

\* _LTSFLinearNetwork.__init__ with the module globals g.
LTSFLinearNetwork_init(g, seq_len, pred_len, in_channels, individual) ==
    IF "nn" \notin g THEN Raised("NameError")
    ELSE Returned([cls |-> "_LTSFLinearNetwork",
                   seq_len |-> seq_len, pred_len |-> pred_len,
                   in_channels |-> in_channels, individual |-> individual,
                   Linear |-> LTSFLinearNetwork_Linear(seq_len, pred_len,
                                                      in_channels, individual),
                   training |-> TRUE])

\* LTSFLinearNetwork(seq_len, pred_len, in_channels, individual)._build()
LTSFLinearNetwork_build(g, seq_len, pred_len, in_channels, individual) ==
    LTSFLinearNetwork_init(g, seq_len, pred_len, in_channels, individual)

----------------------------------------------------------------------------
(* LTSFNLinearNetwork: sktime/networks/ltsf.py *)

\* _LTSFNLinearNetwork.__init__.  In the individual mode the loop body
\* reads self.Linear, which nothing has assigned: the first iteration raises
\* AttributeError, and with no iteration the attribute stays unassigned.
LTSFNLinearNetwork_init(g, seq_len, pred_len, in_channels, individual) ==
    LET obj == [cls |-> "_LTSFNLinearNetwork",
                seq_len |-> seq_len, pred_len |-> pred_len,
                in_channels |-> in_channels, individual |-> individual,
                Linear |-> Unassigned, training |-> TRUE]
    IN  IF individual
        THEN IF in_channels >= 1 THEN Raised("AttributeError")
             ELSE Returned(obj)
        ELSE IF "nn" \notin g THEN Raised("NameError")
             ELSE Returned([obj EXCEPT !.Linear = nn_Linear(seq_len, pred_len)])

\* LTSFNLinearNetwork(seq_len, pred_len, in_channels, individual)._build()
LTSFNLinearNetwork_build(g, seq_len, pred_len, in_channels, individual) ==
    LTSFNLinearNetwork_init(g, seq_len, pred_len, in_channels, individual)

\* _LTSFLinearNetwork.forward on an input of shape s: the shape of the
\* output.  torch raises IndexError for a dimension or index out of range
\* and RuntimeError for a permute or matrix product that does not fit.
LTSFLinearNetwork_forward(self, s) ==
    IF self.individual
    THEN IF Len(s) < 3 THEN Raised("IndexError")
         ELSE IF self.in_channels > s[3] THEN Raised("IndexError")
         ELSE IF self.in_channels > Len(self.Linear.layers) THEN Raised("IndexError")
         ELSE IF self.in_channels > 0 /\ s[2] # self.Linear.layers[1].in_features
              THEN Raised("RuntimeError")
         ELSE Returned(<<s[1], self.pred_len, s[3]>>)
    ELSE IF Len(s) # 3 THEN Raised("RuntimeError")
         ELSE IF s[2] # self.Linear.in_features THEN Raised("RuntimeError")
         ELSE Returned(<<s[1], self.Linear.out_features, s[3]>>)

----------------------------------------------------------------------------
(* Custom dataset objects handed to the forecaster by its user. *)

\* An object of a user's class.  truthy is bool(obj); build_dataset says
\* whether the attribute is "missing", "noncallable" or "callable"; inner is
\* what build_dataset(y) built: the windows of y, or NoneObj before the call.
CustomDataset(truthy, bd, seq_len, pred_len) ==
    [cls |-> "CustomDataset", truthy |-> truthy, build_dataset |-> bd,
     seq_len |-> seq_len, pred_len |-> pred_len, inner |-> NoneObj]

\* Python truth value: None is false.
Truthy(o) == IF o.cls = "NoneType" THEN FALSE ELSE o.truthy

\* hasattr(o, "build_dataset") and callable(o.build_dataset)
HasCallableBuildDataset(o) ==
    IF o.cls = "NoneType" THEN FALSE ELSE o.build_dataset = "callable"

\* o.build_dataset(y): the call, on whatever o is.
Call_build_dataset(o, y) ==
    IF o.cls = "NoneType" THEN Raised("AttributeError")
    ELSE IF o.build_dataset = "missing" THEN Raised("AttributeError")
    ELSE IF o.build_dataset = "noncallable" THEN Raised("TypeError")
    ELSE Returned([o EXCEPT !.inner = PyTorchDataset_init(y, o.seq_len, o.pred_len, TRUE)])

----------------------------------------------------------------------------
(* torch.utils.data.DataLoader, as far as the estimator uses it. *)

DataLoader(dataset, batch_size, shuffle) ==
    [cls |-> "DataLoader", dataset |-> dataset, batch_size |-> batch_size,
     shuffle |-> shuffle]

\* The windows a dataset object serves.
Windows(dataset) == IF dataset.cls = "CustomDataset" THEN dataset.inner ELSE dataset

\* ceil(n / b)
CeilDiv(n, b) == (n + b - 1) \div b

\* Iterating a (not shuffling) DataLoader: batches of consecutive samples,
\* the last one possibly short; a batch stacks its samples, so its shape is
\* the batch length followed by the sample's shape.  len() of a dataset
\* whose __len__ is negative raises ValueError.
Batches(dl) ==
    LET w == Windows(dl.dataset)
    IN  IF w.cls = "NoneType" THEN Raised("TypeError")
        ELSE LET n == PyTorchDataset_len(w)
                 b == dl.batch_size
             IN  IF n < 0 THEN Raised("ValueError")
                 ELSE Returned([k \in 1..CeilDiv(n, b) |->
                        LET first == (k - 1) * b
                            size == Min(b, n - first)
                            item == PyTorchDataset_getitem(w, first)
                        IN  [first |-> first, size |-> size,
                             x |-> <<size>> \o item.x.shape,
                             y |-> <<size>> \o item.y.shape]])

----------------------------------------------------------------------------
(* LTSFLinearForecaster: sktime/forecasting/ltsf.py *)

\* The instance attributes the methods of BaseDeepNetworkPyTorch read and
\* that no __init__ parameter provides.
LateAttrs == {"network", "_criterion", "_optimizer", "scale", "shuffle"}

\* A faulty variant of __init__: the dependency check is asked not to raise.
LTSFLinearForecaster_depcheck_silent(installed) ==
    check_soft_dependencies(installed, "none")

\* LTSFLinearForecaster.__init__, line 87: _check_soft_dependencies("torch"),
\* with the default severity.
LTSFLinearForecaster_depcheck(installed) ==
    check_soft_dependencies(installed, "error")

\* LTSFLinearForecaster.__init__.  assigned holds the names of the instance
\* attributes assigned beyond the constructor's parameters; byClient those
\* among them that client code assigned; fitted says that a call of fit
\* returned normally.
LTSFLinearForecaster_init(installed, seq_len, pred_len, num_epochs, batch_size, in_channels, individual, cdt, cdp) ==
    LET self == [cls |-> "LTSFLinearForecaster",
                 seq_len |-> seq_len, pred_len |-> pred_len,
                 individual |-> individual, in_channels |-> in_channels,
                 num_epochs |-> num_epochs,
                 custom_dataset_train |-> cdt, custom_dataset_pred |-> cdp,
                 batch_size |-> batch_size,
                 assigned |-> {}, byClient |-> {},
                 network |-> Unassigned, scale |-> FALSE, shuffle |-> FALSE,
                 fitted |-> FALSE]
        dep == LTSFLinearForecaster_depcheck(installed)
    IN  IF dep.exc # "none" THEN Raised(dep.exc)
        ELSE IF dep.val
             THEN Returned([self EXCEPT !.assigned = {"criterions", "optimizers"}])
             ELSE Returned(self)

\* LTSFLinearForecaster.get_test_params: the parameter set of the tests
\* (in_channels is left at its default).
get_test_params ==
    [seq_len |-> 2, pred_len |-> 1, batch_size |-> 1, num_epochs |-> 1,
     individual |-> TRUE, in_channels |-> 1]

\* LTSFLinearForecaster._build_network(fh), with the globals g of the
\* imported module sktime.networks.ltsf.
LTSFLinearForecaster_build_network(self, g, fh) ==
    LTSFLinearNetwork_build(g, self.seq_len, fh, self.in_channels, self.individual)

----------------------------------------------------------------------------
(* BaseDeepNetworkPyTorch: sktime/networks/base.py *)

\* The result of a method: exc and val as in Returned/Raised, self the
\* object after the call, missing the unassigned attribute a read hit (or
\* "none"), trace the training-loop events so far.
Outcome(exc, val, self, missing, trace) ==
    [exc |-> exc, val |-> val, self |-> self, missing |-> missing, trace |-> trace]

\* The first of the attributes names (in the order read) that is unassigned.
RECURSIVE FirstMissing(_, _)
FirstMissing(self, names) ==
    IF names = <<>> THEN "none"
    ELSE IF Head(names) \notin self.assigned THEN Head(names)
    ELSE FirstMissing(self, Tail(names))

\* Lines 95-107 / 125-137: the default dataset and the DataLoader around it.
DefaultDataLoader(self, y) ==
    LET miss == FirstMissing(self, <<"network", "scale", "shuffle">>)
    IN  IF miss # "none" THEN Outcome("AttributeError", NoneObj, self, miss, <<>>)
        ELSE Outcome("none",
                     DataLoader(PyTorchDataset_init(y, self.network.seq_len,
                                                    self.network.pred_len, self.scale),
                                self.batch_size, self.shuffle),
                     self, "none", <<>>)

\* Lines 103-107 / 133-137: the DataLoader around a custom dataset.
CustomDataLoader(self, dataset) ==
    IF "shuffle" \notin self.assigned
    THEN Outcome("AttributeError", NoneObj, self, "shuffle", <<>>)
    ELSE Outcome("none", DataLoader(dataset, self.batch_size, self.shuffle),
                 self, "none", <<>>)

\* BaseDeepNetworkPyTorch.build_pytorch_train_dataloader
build_pytorch_train_dataloader(self, y) ==
    IF Truthy(self.custom_dataset_train)
    THEN IF HasCallableBuildDataset(self.custom_dataset_train)
         THEN LET built == Call_build_dataset(self.custom_dataset_train, y)
                  self1 == [self EXCEPT !.custom_dataset_train = built.val]
              IN  CustomDataLoader(self1, self1.custom_dataset_train)
         ELSE Outcome("NotImplementedError", NoneObj, self, "none", <<>>)
    ELSE DefaultDataLoader(self, y)

\* BaseDeepNetworkPyTorch.build_pytorch_pred_dataloader
build_pytorch_pred_dataloader(self, y) ==
    IF Truthy(self.custom_dataset_pred)
    THEN IF HasCallableBuildDataset(self.custom_dataset_pred)
         THEN LET built == Call_build_dataset(self.custom_dataset_train, y)
              IN  IF built.exc # "none"
                  THEN Outcome(built.exc, NoneObj, self, "none", <<>>)
                  ELSE LET self1 == [self EXCEPT !.custom_dataset_train = built.val]
                       IN  CustomDataLoader(self1, self1.custom_dataset_train)
         ELSE Outcome("NotImplementedError", NoneObj, self, "none", <<>>)
    ELSE DefaultDataLoader(self, y)

\* optimizer.step(): every parameter of the network moves to a new version.
OptimizerStep(network) ==
    IF network.Linear.cls = "ModuleList"
    THEN LET layers == network.Linear.layers
         IN  [network EXCEPT !.Linear.layers =
                  [k \in 1..Len(layers) |-> [layers[k] EXCEPT !.w = @ + 1]]]
    ELSE [network EXCEPT !.Linear.w = @ + 1]

\* A faulty variant of the loop body: the gradients are reset after the
\* backward pass, so the step is taken on gradients that were just cleared.
TrainBatch_late_zero_grad(st, batch) ==
    IF st.exc # "none" THEN st
    ELSE LET self == st.self
             fwd == LTSFLinearNetwork_forward(self.network, batch.x)
         IN  IF fwd.exc # "none"
             THEN [st EXCEPT !.exc = fwd.exc, !.trace = Append(@, "forward")]
             ELSE IF LateAttrs \subseteq self.assigned
             THEN [st EXCEPT !.self.network = OptimizerStep(@),
                             !.trace = @ \o <<"forward", "loss", "backward",
                                              "zero_grad", "step">>]
             ELSE [st EXCEPT !.exc = "AttributeError", !.missing = "_criterion",
                             !.trace = Append(@, "forward")]

\* Lines 59-63: the loop body of _fit for one batch, from the outcome st.
TrainBatch(st, batch) ==
    IF st.exc # "none" THEN st
    ELSE LET self == st.self
             fwd == LTSFLinearNetwork_forward(self.network, batch.x)
         IN  IF fwd.exc # "none"
             THEN [st EXCEPT !.exc = fwd.exc, !.trace = Append(@, "forward")]
             ELSE IF "_criterion" \notin self.assigned
             THEN [st EXCEPT !.exc = "AttributeError", !.missing = "_criterion",
                             !.trace = Append(@, "forward")]
             ELSE IF "_optimizer" \notin self.assigned
             THEN [st EXCEPT !.exc = "AttributeError", !.missing = "_optimizer",
                             !.trace = @ \o <<"forward", "loss">>]
             ELSE [st EXCEPT !.self.network = OptimizerStep(@),
                             !.trace = @ \o <<"forward", "loss", "zero_grad",
                                              "backward", "step">>]

\* Line 58: for x, y in dataloader, from batch k on.
RECURSIVE TrainBatches(_, _, _)
TrainBatches(st, batches, k) ==
    IF k > Len(batches) \/ st.exc # "none" THEN st
    ELSE TrainBatches(TrainBatch(st, batches[k]), batches, k + 1)

\* Line 57: for _ in range(self.num_epochs), with e epochs left.
RECURSIVE TrainEpochs(_, _, _)
TrainEpochs(st, dl, e) ==
    IF e <= 0 \/ st.exc # "none" THEN st
    ELSE LET it == Batches(dl)
         IN  IF it.exc # "none" THEN [st EXCEPT !.exc = it.exc]
             ELSE TrainEpochs(TrainBatches(st, it.val, 1), dl, e - 1)

\* BaseDeepNetworkPyTorch._fit
BaseDeepNetworkPyTorch_fit(self, y) ==
    LET dl == build_pytorch_train_dataloader(self, y)
    IN  IF dl.exc # "none" THEN dl
        ELSE IF "network" \notin dl.self.assigned
        THEN Outcome("AttributeError", NoneObj, dl.self, "network", <<>>)
        ELSE LET self1 == [dl.self EXCEPT !.network.training = TRUE]
                 st == TrainEpochs(Outcome("none", NoneObj, self1, "none", <<>>),
                                   dl.val, self1.num_epochs)
             IN  st

\* The values a network computes: they are a function of its parameters
\* (and of the input), so they are represented by the parameters' versions.
Parameters(network) ==
    IF network.Linear.cls = "ModuleList"
    THEN [k \in 1..Len(network.Linear.layers) |-> network.Linear.layers[k].w]
    ELSE <<network.Linear.w>>

\* Line 75 for batches k..: the list of the network's outputs' shapes.
RECURSIVE PredictBatches(_, _, _, _)
PredictBatches(self, batches, k, acc) ==
    IF k > Len(batches) THEN Returned(acc)
    ELSE IF "network" \notin self.assigned THEN Raised("AttributeError")
    ELSE LET fwd == LTSFLinearNetwork_forward(self.network, batches[k].x)
         IN  IF fwd.exc # "none" THEN fwd
             ELSE PredictBatches(self, batches, k + 1, Append(acc, fwd.val))

\* Line 76: cat(y_pred, dim=0).view(-1, y_pred[0].shape[-1]): the shape.  cat
\* of an empty list raises RuntimeError.
CatView(shapes) ==
    IF shapes = <<>> THEN Raised("RuntimeError")
    ELSE LET first == shapes[1]
             rows == SumSeq([k \in 1..Len(shapes) |-> shapes[k][1]])
             cat == <<rows>> \o Tail(first)
             last == first[Len(first)]
         IN  IF last = 0 THEN Raised("RuntimeError")
             ELSE Returned(<<Prod(cat) \div last, last>>)

\* BaseDeepNetworkPyTorch._predict
BaseDeepNetworkPyTorch_predict(self, X) ==
    LET dl == build_pytorch_pred_dataloader(self, X)
    IN  IF dl.exc # "none" THEN dl
        ELSE LET it == Batches(dl.val)
             IN  IF it.exc # "none"
                 THEN Outcome(it.exc, NoneObj, dl.self, "none", <<>>)
                 ELSE LET outs == PredictBatches(dl.self, it.val, 1, <<>>)
                      IN  IF outs.exc # "none"
                          THEN Outcome(outs.exc, NoneObj, dl.self,
                                       IF outs.exc = "AttributeError"
                                       THEN "network" ELSE "none", <<>>)
                          ELSE LET v == CatView(outs.val)
                               IN  IF v.exc # "none"
                                   THEN Outcome(v.exc, NoneObj, dl.self, "none", <<>>)
                                   ELSE Outcome("none",
                                                [shape |-> v.val,
                                                 params |-> Parameters(dl.self.network)],
                                                dl.self, "none", <<>>)

\* network.state_dict(): the parameters by layer.
state_dict(network) == [cls |-> "state_dict", params |-> Parameters(network)]

\* torch.load and load_state_dict: the parameters of the file, layer by
\* layer, replace those of a network of the same architecture.
load_state_dict(network, sd) ==
    IF network.Linear.cls = "ModuleList"
    THEN LET layers == network.Linear.layers
         IN  [network EXCEPT !.Linear.layers =
                  [k \in 1..Len(layers) |-> [layers[k] EXCEPT !.w = sd.params[k]]]]
    ELSE [network EXCEPT !.Linear.w = sd.params[1]]

\* A faulty variant of save: the state of a newly built network is written.
BaseDeepNetworkPyTorch_save_untrained(self) ==
    IF "network" \notin self.assigned
    THEN Outcome("AttributeError", NoneObj, self, "network", <<>>)
    ELSE Outcome("none",
                 [cls |-> "state_dict",
                  params |-> [k \in 1..Len(Parameters(self.network)) |-> 0]],
                 self, "none", <<>>)

\* BaseDeepNetworkPyTorch.save: the outcome; val is the file's content.
BaseDeepNetworkPyTorch_save(self) ==
    IF "network" \notin self.assigned
    THEN Outcome("AttributeError", NoneObj, self, "network", <<>>)
    ELSE Outcome("none", state_dict(self.network), self, "none", <<>>)

----------------------------------------------------------------------------
(* TapNetRegressor: sktime/regression/deep_learning/tapnet.py *)

PyList(items) == [cls |-> "list", items |-> items]

\* TapNetRegressor.__init__: line 100 checks the dependency, lines 103-132
\* store the parameters.
TapNetRegressor_init(installed, callbacks) ==
    LET dep == check_dl_dependencies(installed, "error")
    IN  IF dep.exc # "none" THEN Raised(dep.exc)
        ELSE Returned([cls |-> "TapNetRegressor", callbacks |-> callbacks,
                       assigned |-> {"_network"}, callbacks_ |-> PyList(<<>>)])

\* TapNetRegressor._fit: val is the callback list handed to model_.fit.
\* callbacks_ stands for the attribute self._callbacks.
TapNetRegressor_fit(self) ==
    LET self1 == IF self.callbacks.cls = "NoneType"
                 THEN [self EXCEPT !.callbacks_ = PyList(<<>>),
                                   !.assigned = @ \cup {"_callbacks"}]
                 ELSE self
        self2 == [self1 EXCEPT !.assigned = @ \cup {"input_shape", "model_", "optimizer_"}]
    IN  IF "_callbacks" \notin self2.assigned
        THEN Outcome("AttributeError", NoneObj, self2, "_callbacks", <<>>)
        ELSE Outcome("none", self2.callbacks_,
                     [self2 EXCEPT !.assigned = @ \cup {"history"}],
                     "none", <<>>)

----------------------------------------------------------------------------
(* The client program: one call per step. *)

NoCall == [op |-> "none", arg |-> NoneObj, exc |-> "none", val |-> NoneObj,
           missing |-> "none", trace |-> <<>>]

Call(op, arg, out) ==
    [op |-> op, arg |-> arg, exc |-> out.exc, val |-> out.val,
     missing |-> "none", trace |-> <<>>]

CallOutcome(op, arg, out) ==
    [op |-> op, arg |-> arg, exc |-> out.exc, val |-> out.val,
     missing |-> out.missing, trace |-> out.trace]

\* The client holds no object.
Idle == /\ ds = NoneObj /\ net = NoneObj /\ est = NoneObj /\ tap = NoneObj

\* The custom dataset objects a user may hand to a forecaster.
CustomChoices(seq_len, pred_len) ==
    {NoneObj} \cup
    {CustomDataset(t, b, seq_len, pred_len) :
        t \in BOOLEAN, b \in {"callable", "noncallable", "missing"}}

Init ==
    /\ torch \in BOOLEAN
    /\ tensorflow \in BOOLEAN
    /\ mod = Unloaded
    /\ ds = NoneObj
    /\ net = NoneObj
    /\ est = NoneObj
    /\ tap = NoneObj
    /\ saved = NoneObj
    /\ ret = NoCall

\* import sktime.networks.ltsf
ImportNetworks ==
    /\ Idle
    /\ mod.state # "loaded"
    /\ mod' = import_networks_ltsf(torch)
    /\ ret' = [NoCall EXCEPT !.op = "import", !.exc =
                  IF mod'.state = "loaded" THEN "none" ELSE mod'.state]
    /\ UNCHANGED <<torch, tensorflow, ds, net, est, tap, saved>>

\* ds = PyTorchDataset(y, seq_len, pred_len, scale) on a series of length n
NewDataset ==
    /\ Idle
    /\ \E n \in SeriesLengths, L \in Lens, T \in Lens, scale \in BOOLEAN :
          /\ ds' = PyTorchDataset_init(Series(n), L, T, scale)
          /\ ret' = [NoCall EXCEPT !.op = "PyTorchDataset",
                                   !.arg = [n |-> n, scale |-> scale]]
    /\ UNCHANGED <<torch, tensorflow, mod, net, est, tap, saved>>

\* ds.__len__()
DatasetLen ==
    /\ ds # NoneObj
    /\ ret.op = "PyTorchDataset"
    /\ ret' = [ret EXCEPT !.op = "__len__", !.val = PyTorchDataset_len(ds)]
    /\ UNCHANGED <<torch, tensorflow, mod, ds, net, est, tap, saved>>

\* ds[i] for an index the DataLoader may ask for
DatasetGetItem ==
    /\ ds # NoneObj
    /\ ret.op = "PyTorchDataset"
    /\ \E i \in 0..(PyTorchDataset_len(ds) - 1) :
          ret' = [ret EXCEPT !.op = "__getitem__", !.arg = ret.arg @@ [i |-> i],
                             !.val = PyTorchDataset_getitem(ds, i)]
    /\ UNCHANGED <<torch, tensorflow, mod, ds, net, est, tap, saved>>

\* net = LTSFLinearNetwork(seq_len, pred_len, in_channels, individual)._build()
BuildLinear ==
    /\ Idle
    /\ mod.state = "loaded"
    /\ \E L \in Lens, T \in Lens, C \in 0..MaxChannels, ind \in BOOLEAN :
          LET out == LTSFLinearNetwork_build(mod.names, L, T, C, ind)
          IN  /\ net' = out.val
              /\ ret' = Call("LTSFLinearNetwork",
                             [seq_len |-> L, pred_len |-> T, in_channels |-> C,
                              individual |-> ind], out)
    /\ UNCHANGED <<torch, tensorflow, mod, ds, est, tap, saved>>

\* net = LTSFNLinearNetwork(seq_len, pred_len, in_channels, individual)._build()
BuildNLinear ==
    /\ Idle
    /\ mod.state = "loaded"
    /\ \E L \in Lens, T \in Lens, C \in 0..MaxChannels, ind \in BOOLEAN :
          LET out == LTSFNLinearNetwork_build(mod.names, L, T, C, ind)
          IN  /\ net' = out.val
              /\ ret' = Call("LTSFNLinearNetwork",
                             [seq_len |-> L, pred_len |-> T, in_channels |-> C,
                              individual |-> ind], out)
    /\ UNCHANGED <<torch, tensorflow, mod, ds, est, tap, saved>>

\* est = LTSFLinearForecaster(seq_len, pred_len, ...) without custom datasets
Construct ==
    /\ Idle
    /\ \E L \in Lens, T \in Lens, E \in Epochs, B \in BatchSizes,
          C \in Channels, ind \in BOOLEAN :
          LET out == LTSFLinearForecaster_init(torch, L, T, E, B, C, ind,
                                               NoneObj, NoneObj)
          IN  /\ est' = out.val
              /\ ret' = Call("LTSFLinearForecaster", NoneObj, out)
    /\ UNCHANGED <<torch, tensorflow, mod, ds, net, tap, saved>>

\* est = LTSFLinearForecaster(**get_test_params()[0], custom_dataset_train=...,
\* custom_dataset_pred=...)
ConstructCustom ==
    /\ Idle
    /\ LET p == get_test_params
       IN  \E cdt \in CustomChoices(p.seq_len, p.pred_len),
              cdp \in CustomChoices(p.seq_len, p.pred_len) :
             LET out == LTSFLinearForecaster_init(torch, p.seq_len, p.pred_len,
                            p.num_epochs, p.batch_size, p.in_channels,
                            p.individual, cdt, cdp)
             IN  /\ cdt # NoneObj \/ cdp # NoneObj
                 /\ est' = out.val
                 /\ ret' = Call("LTSFLinearForecaster", NoneObj, out)
    /\ UNCHANGED <<torch, tensorflow, mod, ds, net, tap, saved>>

\* est._build_network(fh); the method imports sktime.networks.ltsf first.
BuildNetwork ==
    /\ est # NoneObj
    /\ \E fh \in Lens :
          LET m == import_networks_ltsf(torch)
              out == IF m.state # "loaded" THEN Raised(m.state)
                     ELSE LTSFLinearForecaster_build_network(est, m.names, fh)
          IN  /\ mod' = m
              /\ ret' = Call("_build_network", [fh |-> fh], out)
    /\ UNCHANGED <<torch, tensorflow, ds, net, est, tap, saved>>

\* Client code completes the forecaster by hand: it assigns the attributes
\* that _fit, _predict and save read, the network being the one that
\* _build_network(pred_len) returns.  No code of the package does this.
ClientAssigns ==
    /\ est # NoneObj
    /\ est.byClient = {}
    /\ \E scale \in BOOLEAN :
          LET m == import_networks_ltsf(torch)
              out == LTSFLinearForecaster_build_network(est, m.names, est.pred_len)
          IN  /\ m.state = "loaded"
              /\ out.exc = "none"
              /\ mod' = m
              /\ est' = [est EXCEPT !.network = out.val, !.scale = scale,
                                    !.shuffle = FALSE,
                                    !.assigned = @ \cup LateAttrs,
                                    !.byClient = LateAttrs]
              /\ ret' = [NoCall EXCEPT !.op = "assign"]
    /\ UNCHANGED <<torch, tensorflow, ds, net, tap, saved>>

\* est.fit(y) on a series of length n; the client fits a forecaster until a
\* call returns normally.
Fit ==
    /\ est # NoneObj
    /\ ~est.fitted
    /\ \E n \in SeriesLengths :
          LET out == BaseDeepNetworkPyTorch_fit(est, Series(n))
          IN  /\ est' = [out.self EXCEPT !.fitted = (out.exc = "none")]
              /\ ret' = CallOutcome("fit", [n |-> n], out)
    /\ UNCHANGED <<torch, tensorflow, mod, ds, net, tap, saved>>

\* est.predict on a series of length n
Predict ==
    /\ est # NoneObj
    /\ \E n \in SeriesLengths :
          LET out == BaseDeepNetworkPyTorch_predict(est, Series(n))
          IN  /\ est' = out.self
              /\ ret' = CallOutcome("predict", [n |-> n], out)
    /\ UNCHANGED <<torch, tensorflow, mod, ds, net, tap, saved>>

\* est.save(path)
Save ==
    /\ est # NoneObj
    /\ LET out == BaseDeepNetworkPyTorch_save(est)
       IN  /\ saved' = IF out.exc = "none" THEN out.val ELSE saved
           /\ ret' = CallOutcome("save", NoneObj, out)
    /\ UNCHANGED <<torch, tensorflow, mod, ds, net, est, tap>>

\* tap = TapNetRegressor(callbacks=...)
TapConstruct ==
    /\ Idle
    /\ \E cb \in {NoneObj, PyList(<<>>), PyList(<<"cb">>)} :
          LET out == TapNetRegressor_init(tensorflow, cb)
          IN  /\ tap' = out.val
              /\ ret' = Call("TapNetRegressor", NoneObj, out)
    /\ UNCHANGED <<torch, tensorflow, mod, ds, net, est, saved>>

\* tap.fit(X, y)
TapFit ==
    /\ tap # NoneObj
    /\ LET out == TapNetRegressor_fit(tap)
       IN  /\ tap' = out.self
           /\ ret' = CallOutcome("TapNetRegressor.fit", NoneObj, out)
    /\ UNCHANGED <<torch, tensorflow, mod, ds, net, est, saved>>

\* The client drops the object it holds (and the file it wrote).
Release ==
    /\ ~Idle
    /\ ds' = NoneObj /\ net' = NoneObj /\ est' = NoneObj /\ tap' = NoneObj
    /\ saved' = NoneObj
    /\ ret' = NoCall
    /\ UNCHANGED <<torch, tensorflow, mod>>

Next ==
    \/ ImportNetworks
    \/ NewDataset \/ DatasetLen \/ DatasetGetItem
    \/ BuildLinear \/ BuildNLinear
    \/ Construct \/ ConstructCustom \/ BuildNetwork \/ ClientAssigns \/ Fit \/ Predict \/ Save
    \/ TapConstruct \/ TapFit
    \/ Release

Spec == Init /\ [][Next]_vars

----------------------------------------------------------------------------
(* Properties. *)

\* C1: a PyTorchDataset over a series of length N with window length L and
\* horizon T reports exactly N - L - T + 1 samples from __len__, with and
\* without scaling.
C1_LenIsWindowCount ==
    (ds # NoneObj /\ ret.op = "__len__") =>
        ret.val = ret.arg.n - ds.seq_len - ds.pred_len + 1

\* A scaled dataset that has reported two or more samples.
C1_ScaledLenReported ==
    /\ ds # NoneObj
    /\ ret.op = "__len__"
    /\ ret.arg.scale
    /\ ret.val >= 2
    /\ ret.val = ret.arg.n - ds.seq_len - ds.pred_len + 1

\* C2: an LTSF-Linear network built with individual=True holds exactly
\* in_channels linear layers, each from seq_len to pred_len; built with
\* individual=False it holds exactly one linear layer; for in_channels >= 1.
C2_LinearWeightSets ==
    (ret.op = "LTSFLinearNetwork" /\ ret.arg.in_channels >= 1) =>
        /\ ret.exc = "none"
        /\ net.cls = "_LTSFLinearNetwork"
        /\ IF ret.arg.individual
           THEN /\ net.Linear.cls = "ModuleList"
                /\ Len(net.Linear.layers) = ret.arg.in_channels
                /\ \A k \in 1..Len(net.Linear.layers) :
                      /\ net.Linear.layers[k].cls = "Linear"
                      /\ net.Linear.layers[k].in_features = ret.arg.seq_len
                      /\ net.Linear.layers[k].out_features = ret.arg.pred_len
           ELSE /\ net.Linear.cls = "Linear"
                /\ net.Linear.in_features = ret.arg.seq_len
                /\ net.Linear.out_features = ret.arg.pred_len
                /\ WeightSets(net.Linear) = 1

\* An individual network over two or more channels has been built.
C2_IndividualNetworkBuilt ==
    /\ ret.op = "LTSFLinearNetwork"
    /\ ret.exc = "none"
    /\ ret.arg.individual
    /\ ret.arg.in_channels >= 2
    /\ WeightSets(net.Linear) = ret.arg.in_channels

\* The forecaster after its network was rebuilt and the saved file loaded.
Reloaded(self, file) ==
    [self EXCEPT !.network =
        load_state_dict(
            LTSFLinearForecaster_build_network(self, mod.names, self.network.pred_len).val,
            file)]

Supplied(o) == o # NoneObj

\* C4: with a custom dataset object supplied for training (for prediction)
\* that has no callable build_dataset, building the training (prediction)
\* dataloader raises NotImplementedError; no dataset is built.
C4_MalformedCustomDatasetRaises ==
    /\ (/\ ret.op = "fit"
        /\ Supplied(est.custom_dataset_train)
        /\ ~HasCallableBuildDataset(est.custom_dataset_train))
       => /\ ret.exc = "NotImplementedError"
          /\ est.custom_dataset_train.inner = NoneObj
    /\ (/\ ret.op = "predict"
        /\ Supplied(est.custom_dataset_pred)
        /\ ~HasCallableBuildDataset(est.custom_dataset_pred))
       => /\ ret.exc = "NotImplementedError"
          /\ est.custom_dataset_pred.inner = NoneObj

\* C5: constructing an estimator whose deep-learning dependency is not
\* installed (torch for LTSFLinearForecaster, tensorflow for TapNetRegressor)
\* raises, and the caller gets no estimator.
C5_MissingDependencyFailsConstruction ==
    /\ (ret.op = "LTSFLinearForecaster" /\ ~torch) =>
           (ret.exc # "none" /\ est = NoneObj)
    /\ (ret.op = "TapNetRegressor" /\ ~tensorflow) =>
           (ret.exc # "none" /\ tap = NoneObj)

\* The forecaster's constructor has raised for the missing torch.
C5_ConstructionRefused ==
    /\ ret.op = "LTSFLinearForecaster"
    /\ ~torch
    /\ ret.exc = "ModuleNotFoundError"
    /\ est = NoneObj

\* C6: in every call of fit on a forecaster as the constructor left it, every
\* attribute fit reads has been assigned, and the network is stored on the
\* forecaster.
C6_FitReadsOnlyAssignedAttributes ==
    (ret.op = "fit" /\ est.byClient = {}) =>
        /\ ret.missing = "none"
        /\ "network" \in est.assigned

\* C7: on a fitted forecaster, what predict returns has exactly pred_len rows
\* (one per horizon step), whatever the length of the series and the batch
\* size.
C7_PredictHasHorizonRows ==
    (ret.op = "predict" /\ est.fitted /\ ret.exc = "none") =>
        ret.val.shape[1] = est.pred_len

\* C8: the network _build_network returns has the forecaster's seq_len,
\* pred_len, in_channels and individual, whatever fh is passed.
C8_BuiltNetworkHasForecasterLengths ==
    ret.op = "_build_network" =>
        /\ ret.exc = "none"
        /\ ret.val.seq_len = est.seq_len
        /\ ret.val.pred_len = est.pred_len
        /\ ret.val.in_channels = est.in_channels
        /\ ret.val.individual = est.individual

\* C9: an LTSF-NLinear network with individual=True is built and holds one
\* linear layer per channel, each from seq_len to pred_len.
C9_NLinearIndividualHasLayerPerChannel ==
    (ret.op = "LTSFNLinearNetwork" /\ ret.arg.individual /\ ret.arg.in_channels >= 1) =>
        /\ ret.exc = "none"
        /\ net.cls = "_LTSFNLinearNetwork"
        /\ net.Linear.cls = "ModuleList"
        /\ Len(net.Linear.layers) = ret.arg.in_channels
        /\ \A k \in 1..Len(net.Linear.layers) :
              /\ net.Linear.layers[k].in_features = ret.arg.seq_len
              /\ net.Linear.layers[k].out_features = ret.arg.pred_len

\* C10: without torch the module sktime.networks.ltsf still loads: every
\* class statement executes and binds its class.
C10_ModuleLoadsWithoutTorch ==
    (mod.state # "unloaded" /\ ~torch) =>
        /\ mod.state = "loaded"
        /\ NetworkClasses \subseteq mod.names

\* The events of one batch of the training loop, in the order of lines 59-63.
TrainingOrder == <<"forward", "loss", "zero_grad", "backward", "step">>

\* The number of samples of the dataset that the last call of fit trained on.
FitSamples ==
    IF Truthy(est.custom_dataset_train)
    THEN PyTorchDataset_len(est.custom_dataset_train.inner)
    ELSE ret.arg.n - est.network.seq_len - est.network.pred_len + 1

\* C11: a call of fit that returns has made exactly num_epochs passes with
\* one optimizer step per batch, num_epochs * ceil(samples / batch_size)
\* steps in all, each parameter having moved once per step; and in every call
\* of fit the events of each batch come in the order forward, loss,
\* zero_grad, backward, step.
C11_TrainingLoopOrderAndCount ==
    ret.op = "fit" =>
        /\ \A j \in 1..Len(ret.trace) :
              ret.trace[j] = TrainingOrder[((j - 1) % Len(TrainingOrder)) + 1]
        /\ ret.exc = "none" =>
              LET steps == est.num_epochs * CeilDiv(FitSamples, est.batch_size)
              IN  /\ Len(ret.trace) = steps * Len(TrainingOrder)
                  /\ \A k \in 1..Len(Parameters(est.network)) :
                        Parameters(est.network)[k] = steps

\* A fit of several epochs over several batches, the last one
\* short, has returned.
C11_SeveralEpochsSeveralBatches ==
    /\ ret.op = "fit"
    /\ ret.exc = "none"
    /\ est.num_epochs > 1
    /\ est.batch_size > 1
    /\ FitSamples > est.batch_size
    /\ FitSamples % est.batch_size # 0

\* C12: a call of predict on a forecaster whose custom_dataset_pred has a
\* callable build_dataset calls build_dataset on custom_dataset_pred, leaves
\* custom_dataset_train as it was, and does not fail for want of a training
\* dataset.
C12_PredictionUsesPredDataset ==
    [][(/\ ret'.op = "predict"
        /\ Truthy(est.custom_dataset_pred)
        /\ HasCallableBuildDataset(est.custom_dataset_pred))
       => /\ est'.custom_dataset_pred.inner # NoneObj
          /\ est'.custom_dataset_train = est.custom_dataset_train
          /\ (est.custom_dataset_train = NoneObj /\ LateAttrs \subseteq est.assigned)
                => ret'.exc # "AttributeError"]_vars

\* C13: sample i of a dataset, 0 <= i < N - L - T + 1, is the pair of the L
\* values y[i..i+L-1] and the T values y[i+L..i+L+T-1]: the target starts
\* right after the input, both windows lie inside the sequence, and sample
\* i + 1 is sample i moved by one position.
C13_SampleIsConsecutiveWindows ==
    (ds # NoneObj /\ ret.op = "__getitem__") =>
        LET i == ret.arg.i
            L == ds.seq_len
            T == ds.pred_len
            x == ret.val.x.data
            y == ret.val.y.data
        IN  /\ i + L + T <= Len(ds.y.data)
            /\ Len(x) = L
            /\ Len(y) = T
            /\ \A k \in 1..L : x[k] = ds.y.data[i + k]
            /\ \A k \in 1..T : y[k] = ds.y.data[i + L + k]
            /\ (i + 1 < PyTorchDataset_len(ds)) =>
                  LET next == PyTorchDataset_getitem(ds, i + 1)
                      both == x \o y
                  IN  /\ \A k \in 1..L : next.x.data[k] = both[k + 1]
                      /\ \A k \in 1..(T - 1) : next.y.data[k] = both[L + k + 1]
                      /\ next.y.data[T] = ds.y.data[i + L + T + 1]

\* A sample that is neither the first nor the last of its
\* dataset, with windows of more than one value, has been read.
C13_InnerSampleRead ==
    /\ ds # NoneObj
    /\ ret.op = "__getitem__"
    /\ ret.arg.i > 0
    /\ ret.arg.i + 1 < PyTorchDataset_len(ds)
    /\ ds.seq_len > 1
    /\ Len(ret.val.x.data) = ds.seq_len
    /\ Len(ret.val.y.data) = ds.pred_len

\* C14: a call of TapNetRegressor.fit completes, having assigned the
\* callback list before the training call reads it: the empty list when
\* callbacks is None, the list given at construction otherwise.
C14_FitUsesSuppliedCallbacks ==
    ret.op = "TapNetRegressor.fit" =>
        /\ ret.exc = "none"
        /\ ret.missing = "none"
        /\ "_callbacks" \in tap.assigned
        /\ ret.val = IF tap.callbacks = NoneObj THEN PyList(<<>>) ELSE tap.callbacks

\* C15: the batches that fit draws from the default dataset of a univariate
\* series have the three-dimensional shape [Batch, seq_len, 1], with scaling
\* and without, and the forward pass of a one-channel network, individual
\* or shared, returns [Batch, pred_len, 1] for each of them, so that fit
\* returns.
C15_BatchesFitForwardPass ==
    (/\ ret.op = "fit"
     /\ LateAttrs \subseteq est.assigned
     /\ ~Truthy(est.custom_dataset_train)
     /\ est.in_channels = 1) =>
        LET dl == DefaultDataLoader(est, Series(ret.arg.n))
            it == Batches(dl.val)
        IN  it.exc = "none" =>
               /\ ret.exc = "none"
               /\ \A k \in 1..Len(it.val) :
                     LET b == it.val[k]
                     IN  /\ b.x = <<b.size, est.network.seq_len, 1>>
                         /\ LTSFLinearNetwork_forward(est.network, b.x)
                               = Returned(<<b.size, est.network.pred_len, 1>>)

====
